---- MODULE Spec2Model ----
(***************************************************************************)
(* Model of the style-file section decoders (casm.rs, mdb.rs, mh.rs,       *)
(* ots.rs, ctab.rs).                                                       *)
(*                                                                         *)
(* A byte buffer handed to a ChunkIter is represented by the sequence of   *)
(* chunk frames it holds: each frame is [id, data, fault].  `id` is the    *)
(* Chunk variant the tag selects, `data` the payload (a nested buffer for  *)
(* container chunks, a sequence of bytes 0..255 for leaf chunks) and       *)
(* `fault` says whether the frame can be read: "none", "header" (fewer     *)
(* bytes than a tag and a length remain) or "length" (the declared length  *)
(* exceeds the remaining bytes).  A faulty frame is always the last one of *)
(* its buffer: it covers every remaining byte.                             *)
(***************************************************************************)
EXTENDS Integers, Sequences, FiniteSets, TLC

VARIABLES
    strict,      \* cfg!(feature = "strict"), fixed for the whole session
    file,        \* the top-level buffer
    casm,        \* result of Casm::parse, or Unparsed
    mdb,         \* result of Mdb::parse, or Unparsed
    mh,          \* result of Mh::parse, or Unparsed
    ots,         \* result of Ots::parse, or Unparsed
    csegOut,     \* what the calls of CsegIter::next returned, in call order
    recordOut,   \* what the calls of RecordIter::next returned, in call order
    input,       \* argument of the decoder applied by a decoder specification
    output       \* its result, or NotCalled

vars == <<strict, file, casm, mdb, mh, ots, csegOut, recordOut, input, output>>
iterVars == <<csegOut, recordOut>>
callVars == <<input, output>>

(***************************************************************************)
(* Bounds of the model.                                                    *)
(***************************************************************************)
MaxChunks == 3        \* top-level chunks in a file
MaxItems == 3         \* chunks in a CASM or an MDB payload
MaxCallsAfterEnd == 1 \* calls of next() after the payload is used up
MaxSubChunks == 2     \* chunks in a CSEG payload
MaxTokens == 2        \* words in the style-part declarations of a CSEG
MaxBits == 2          \* bits of a chord-mute field that differ from the others
MaxTail == 8          \* bytes after the sentinel (CTAB1) or the tables (CTAB2)
MaxFields == 3        \* sub-chunks in the payload of a Record chunk

(***************************************************************************)
(* Sizes of the sections of a CTAB chunk (ctab.rs).                        *)
(***************************************************************************)
COMMON_SIZE == 20
TABLE_SIZE == 6
CTAB1_SPECIAL_SIZE == 5
CTAB2_SPECIAL_SIZE == 7

(***************************************************************************)
(* Option and Result values.  An error is the chain of its messages, the   *)
(* outermost context first.                                                *)
(***************************************************************************)
None == [tag |-> "None"]
Some(v) == [tag |-> "Some", val |-> v]
Ok(v) == [tag |-> "Ok", val |-> v]
Err(msg) == [tag |-> "Err", err |-> <<msg>>]
Context(res, msg) == IF res.tag = "Err" THEN [tag |-> "Err", err |-> <<msg>> \o res.err] ELSE res
IsOk(res) == res.tag = "Ok"
IsErr(res) == res.tag = "Err"
IsSome(opt) == opt.tag = "Some"
IsNone(opt) == opt.tag = "None"
Unparsed == [tag |-> "Unparsed"]
NoInput == [tag |-> "NoInput"]
NotCalled == [tag |-> "NotCalled"]

(***************************************************************************)
(* Chunk frames and the chunk tokenizer.                                   *)
(***************************************************************************)
Frame(id, data) == [id |-> id, data |-> data, fault |-> "none"]
Faulty(kind) == [id |-> "Unknown", data |-> <<>>, fault |-> kind]
Chunk(frame) == [id |-> frame.id, data |-> frame.data]
ChunkIter_new(raw) == raw

\* One step of the tokenizer: the item it yields and the iterator afterwards.
\* A read error is terminal: nothing is yielded after it.
ChunkIter_next(raw) ==
    IF raw = <<>> THEN [item |-> None, rest |-> <<>>]
    ELSE IF Head(raw).fault = "header"
         THEN [item |-> Some(Err("truncated chunk header")), rest |-> <<>>]
    ELSE IF Head(raw).fault = "length"
         THEN [item |-> Some(Err("chunk length exceeds the buffer")), rest |-> <<>>]
    ELSE [item |-> Some(Ok(Chunk(Head(raw)))), rest |-> Tail(raw)]

\* Mutant: the closure lets every readable chunk through, whatever its type.
MatchesOk_anyChunk(item, id) == IsOk(item)

\* The |c| matches!(c, Ok(Chunk::X(..))) closure of the section parsers.
MatchesOk(item, id) == IsOk(item) /\ item.val.id = id

RECURSIVE FilterNextLast(_, _, _)
FilterNextLast(raw, id, found) ==
    LET step == ChunkIter_next(raw) IN
    IF IsNone(step.item) THEN found
    ELSE IF MatchesOk(step.item.val, id) THEN FilterNextLast(step.rest, id, step.item)
    ELSE FilterNextLast(step.rest, id, found)

\* Mutant: the last matching chunk is taken instead of the first.
FilterNext_last(raw, id) == FilterNextLast(raw, id, None)

\* chunk_iter.filter(|c| matches!(c, Ok(Chunk::X(..)))).next()
RECURSIVE FilterNext(_, _)
FilterNext(raw, id) ==
    LET step == ChunkIter_next(raw) IN
    IF IsNone(step.item) THEN None
    ELSE IF MatchesOk(step.item.val, id) THEN step.item
    ELSE FilterNext(step.rest, id)

\* The body shared by the four section parsers: the first item the filter
\* lets through, its tokenizer error wrapped with the section's context,
\* a chunk of another type refused, no item at all reported as absent.
\* Ok(Some(data)) carries the payload the caller wraps in its handle.
SectionPayload(chunk_iter, id, headerMsg, typeMsg) ==
    LET first == FilterNext(chunk_iter, id) IN
    IF IsNone(first) THEN Ok(None)
    ELSE LET maybe_chunk == Context(first.val, headerMsg) IN
         IF IsErr(maybe_chunk) THEN maybe_chunk
         ELSE IF maybe_chunk.val.id = id THEN Ok(Some(maybe_chunk.val.data))
         ELSE Err(typeMsg)

CsegIter(payload) == [inner |-> ChunkIter_new(payload)]
RecordIter(payload) == [inner |-> ChunkIter_new(payload)]
TrackIter_new(payload) == [raw |-> payload]
MhOf(payload) == [bytes |-> payload]

\* Each parser wraps the payload it found in the section's handle.
Casm_parse(chunk_iter) ==
    LET found == SectionPayload(chunk_iter, "Casm", "invalid CASM header",
                                "expected CASM found another type of chunk") IN
    IF IsOk(found) /\ IsSome(found.val) THEN Ok(Some(CsegIter(found.val.val))) ELSE found

Mdb_parse(chunk_iter) ==
    LET found == SectionPayload(chunk_iter, "Mdb", "invalid MDB header",
                                "expected MDB found another type of chunk") IN
    IF IsOk(found) /\ IsSome(found.val) THEN Ok(Some(RecordIter(found.val.val))) ELSE found

Mh_parse(chunk_iter) ==
    LET found == SectionPayload(chunk_iter, "Mh", "invalid MH header",
                                "expected MH found another type of chunk") IN
    IF IsOk(found) /\ IsSome(found.val) THEN Ok(Some(MhOf(found.val.val))) ELSE found

Ots_parse(chunk_iter) ==
    LET found == SectionPayload(chunk_iter, "Ots", "invalid OTS header",
                                "expected OTS found another type of chunk") IN
    IF IsOk(found) /\ IsSome(found.val) THEN Ok(Some(TrackIter_new(found.val.val))) ELSE found

(***************************************************************************)
(* casm.rs: style parts and Cseg::read.                                    *)
(***************************************************************************)
\* The 17 style parts and the ASCII bytes of their names.
StyleParts == <<
    [part |-> "IntroA", name |-> <<73, 110, 116, 114, 111, 32, 65>>],
    [part |-> "IntroB", name |-> <<73, 110, 116, 114, 111, 32, 66>>],
    [part |-> "IntroC", name |-> <<73, 110, 116, 114, 111, 32, 67>>],
    [part |-> "IntroD", name |-> <<73, 110, 116, 114, 111, 32, 68>>],
    [part |-> "MainA", name |-> <<77, 97, 105, 110, 32, 65>>],
    [part |-> "MainB", name |-> <<77, 97, 105, 110, 32, 66>>],
    [part |-> "MainC", name |-> <<77, 97, 105, 110, 32, 67>>],
    [part |-> "MainD", name |-> <<77, 97, 105, 110, 32, 68>>],
    [part |-> "FillInAA", name |-> <<70, 105, 108, 108, 32, 73, 110, 32, 65, 65>>],
    [part |-> "FillInBB", name |-> <<70, 105, 108, 108, 32, 73, 110, 32, 66, 66>>],
    [part |-> "FillInCC", name |-> <<70, 105, 108, 108, 32, 73, 110, 32, 67, 67>>],
    [part |-> "FillInDD", name |-> <<70, 105, 108, 108, 32, 73, 110, 32, 68, 68>>],
    [part |-> "FillInBA", name |-> <<70, 105, 108, 108, 32, 73, 110, 32, 66, 65>>],
    [part |-> "EndingA", name |-> <<69, 110, 100, 105, 110, 103, 32, 65>>],
    [part |-> "EndingB", name |-> <<69, 110, 100, 105, 110, 103, 32, 66>>],
    [part |-> "EndingC", name |-> <<69, 110, 100, 105, 110, 103, 32, 67>>],
    [part |-> "EndingD", name |-> <<69, 110, 100, 105, 110, 103, 32, 68>>] >>

\* Mutant: the name is matched whatever the case of its letters.
LowerCase(bytes) == [i \in DOMAIN bytes |-> IF bytes[i] \in 65..90 THEN bytes[i] + 32 ELSE bytes[i]]
StylePart_try_from_anyCase(value) ==
    IF \E i \in DOMAIN StyleParts : LowerCase(StyleParts[i].name) = LowerCase(value)
    THEN Ok(StyleParts[CHOOSE i \in DOMAIN StyleParts :
                           LowerCase(StyleParts[i].name) = LowerCase(value)].part)
    ELSE Err("invalid style part")

\* impl TryFrom<&[u8]> for StylePart: an exact, case-sensitive match.
StylePart_try_from(value) ==
    IF \E i \in DOMAIN StyleParts : StyleParts[i].name = value
    THEN Ok(StyleParts[CHOOSE i \in DOMAIN StyleParts : StyleParts[i].name = value].part)
    ELSE Err("invalid style part")

\* data.split(|b| *b == sep): the pieces between the separators, in order;
\* n separators give n + 1 pieces, empty ones included.
RECURSIVE SplitFrom(_, _, _)
SplitFrom(data, sep, piece) ==
    IF data = <<>> THEN <<piece>>
    ELSE IF Head(data) = sep THEN <<piece>> \o SplitFrom(Tail(data), sep, <<>>)
    ELSE SplitFrom(Tail(data), sep, Append(piece, Head(data)))

Split(data, sep) == SplitFrom(data, sep, <<>>)

\* The for loop over the pieces of one style-part declaration: the parts
\* pushed so far, or the error of the first piece that is no style part.
RECURSIVE PushParts(_, _)
PushParts(parts, style_parts) ==
    IF parts = <<>> THEN Ok(style_parts)
    ELSE LET part == StylePart_try_from(Head(parts)) IN
         IF IsOk(part) THEN PushParts(Tail(parts), Append(style_parts, part.val))
         ELSE Err("could not read style part value")

\* Mutant: a violation ends the loop with the style parts collected so far.
RECURSIVE CsegLoop_partial(_, _, _)
CsegLoop_partial(chunk_iter, style_parts, ctab) ==
    LET step == ChunkIter_next(chunk_iter)
        partial == Ok([style_parts |-> style_parts, ctab |-> ctab]) IN
    IF IsNone(step.item) THEN partial
    ELSE LET chunk == step.item.val IN
         IF IsErr(chunk) THEN partial
         ELSE IF chunk.val.id = "Sdec"
              THEN LET pushed == PushParts(Split(chunk.val.data, 44), style_parts) IN
                   IF IsErr(pushed) THEN partial
                   ELSE CsegLoop_partial(step.rest, pushed.val, ctab)
         ELSE IF chunk.val.id \in {"Ctab1", "Ctab2", "Cntt"}
              THEN CsegLoop_partial(step.rest, style_parts, ctab)
         ELSE partial

\* The while loop of Cseg::read over the chunks of the CSEG payload.
RECURSIVE CsegLoop(_, _, _)
CsegLoop(chunk_iter, style_parts, ctab) ==
    LET step == ChunkIter_next(chunk_iter) IN
    IF IsNone(step.item) THEN Ok([style_parts |-> style_parts, ctab |-> ctab])
    ELSE LET chunk == step.item.val IN
         IF IsErr(chunk) THEN Err("could not read chunk")
         ELSE IF chunk.val.id = "Sdec"
              THEN LET pushed == PushParts(Split(chunk.val.data, 44), style_parts) IN
                   IF IsErr(pushed) THEN pushed
                   ELSE CsegLoop(step.rest, pushed.val, ctab)
         ELSE IF chunk.val.id \in {"Ctab1", "Ctab2", "Cntt"}
              THEN CsegLoop(step.rest, style_parts, ctab)
         ELSE Err("found a chunk not belonging in a CASM section")

Cseg_read(chunk) ==
    IF chunk.id # "Cseg" THEN Err("not a CSEG chunk")
    ELSE CsegLoop(ChunkIter_new(chunk.data), <<>>, <<>>)

\* Mutant: the tokenizer is read without being advanced.
CsegIter_next_noAdvance(self) ==
    LET step == ChunkIter_next(self.inner)
        after == self IN
    IF IsNone(step.item) THEN [item |-> None, self |-> after]
    ELSE LET chunk == step.item.val IN
         IF IsOk(chunk) /\ chunk.val.id = "Cseg"
         THEN LET cseg == Cseg_read(chunk.val) IN
              IF IsOk(cseg) THEN [item |-> Some(cseg), self |-> after]
              ELSE IF strict THEN [item |-> Some(Context(cseg, "invalid CSEG")), self |-> after]
              ELSE [item |-> None, self |-> after]
         ELSE IF IsOk(chunk) THEN [item |-> None, self |-> after]
         ELSE IF strict THEN [item |-> Some(Context(chunk, "malformed CSEG")), self |-> after]
         ELSE [item |-> None, self |-> after]

\* CsegIter::next: the item returned and the iterator afterwards.
CsegIter_next(self) ==
    LET step == ChunkIter_next(self.inner)
        after == [inner |-> step.rest] IN
    IF IsNone(step.item) THEN [item |-> None, self |-> after]
    ELSE LET chunk == step.item.val IN
         IF IsOk(chunk) /\ chunk.val.id = "Cseg"
         THEN LET cseg == Cseg_read(chunk.val) IN
              IF IsOk(cseg) THEN [item |-> Some(cseg), self |-> after]
              ELSE IF strict THEN [item |-> Some(Context(cseg, "invalid CSEG")), self |-> after]
              ELSE [item |-> None, self |-> after]
         ELSE IF IsOk(chunk) THEN [item |-> None, self |-> after]
         ELSE IF strict THEN [item |-> Some(Context(chunk, "malformed CSEG")), self |-> after]
         ELSE [item |-> None, self |-> after]

(***************************************************************************)
(* mdb.rs: Record::read.  The payload of a Record chunk is [head, chunks]: *)
(* the bytes in front of its sub-chunks (the 5-byte prefix, or fewer bytes *)
(* when the payload is shorter than the prefix) and the buffer after them. *)
(***************************************************************************)
\* std::str::from_utf8(..).is_ok()
RECURSIVE IsUtf8(_)
IsUtf8(t) ==
    LET cont(i) == i <= Len(t) /\ t[i] \in 128..191
        from(n) == SubSeq(t, n, Len(t)) IN
    IF t = <<>> THEN TRUE
    ELSE IF t[1] < 128 THEN IsUtf8(from(2))
    ELSE IF t[1] \in 194..223 THEN cont(2) /\ IsUtf8(from(3))
    ELSE IF t[1] = 224 THEN Len(t) >= 2 /\ t[2] \in 160..191 /\ cont(3) /\ IsUtf8(from(4))
    ELSE IF t[1] = 237 THEN Len(t) >= 2 /\ t[2] \in 128..159 /\ cont(3) /\ IsUtf8(from(4))
    ELSE IF t[1] \in 225..239 THEN cont(2) /\ cont(3) /\ IsUtf8(from(4))
    ELSE IF t[1] = 240 THEN Len(t) >= 2 /\ t[2] \in 144..191 /\ cont(3) /\ cont(4) /\ IsUtf8(from(5))
    ELSE IF t[1] \in 241..243 THEN cont(2) /\ cont(3) /\ cont(4) /\ IsUtf8(from(5))
    ELSE IF t[1] = 244 THEN Len(t) >= 2 /\ t[2] \in 128..143 /\ cont(3) /\ cont(4) /\ IsUtf8(from(5))
    ELSE FALSE

\* title and genre: the text, or String::default() when it is not UTF-8.
StringOrDefault(t) == IF IsUtf8(t) THEN t ELSE <<>>
\* keyword1 and keyword2: Some(text) when it is UTF-8 and not empty.
KeywordOf(t) == IF IsUtf8(t) /\ t # <<>> THEN Some(t) ELSE None

\* The for loop of Record::read over the sub-chunks, fields set as they come.
RECURSIVE RecordLoop(_, _)
RecordLoop(chunk_iter, rec) ==
    LET step == ChunkIter_next(chunk_iter) IN
    IF IsNone(step.item) THEN Ok(rec)
    ELSE LET chunk == step.item.val IN
         IF IsErr(chunk) THEN Err("failed to read chunk")
         ELSE IF chunk.val.id = "SongTitleData"
              THEN RecordLoop(step.rest, [rec EXCEPT !.title = StringOrDefault(chunk.val.data)])
         ELSE IF chunk.val.id = "GenreTitleData"
              THEN RecordLoop(step.rest, [rec EXCEPT !.genre = StringOrDefault(chunk.val.data)])
         ELSE IF chunk.val.id = "Keyword1"
              THEN RecordLoop(step.rest, [rec EXCEPT !.keyword1 = KeywordOf(chunk.val.data)])
         ELSE IF chunk.val.id = "Keyword2"
              THEN RecordLoop(step.rest, [rec EXCEPT !.keyword2 = KeywordOf(chunk.val.data)])
         ELSE RecordLoop(step.rest, rec)

Record_read(chunk) ==
    IF chunk.id # "Record" THEN Err("not a Record chunk")
    ELSE LET head == chunk.data.head IN
         IF Len(head) < 5 THEN Err("failed to read the expected integer")
         ELSE RecordLoop(ChunkIter_new(chunk.data.chunks),
                         [tempo |-> head[1] * 65536 + head[2] * 256 + head[3],
                          signature |-> [upper |-> head[4], lower |-> head[5]],
                          title |-> <<>>, genre |-> <<>>,
                          keyword1 |-> None, keyword2 |-> None])

\* RecordIter::next: the item returned and the iterator afterwards.
RecordIter_next(self) ==
    LET step == ChunkIter_next(self.inner)
        after == [inner |-> step.rest] IN
    IF IsNone(step.item) THEN [item |-> None, self |-> after]
    ELSE LET chunk == step.item.val IN
         IF IsOk(chunk) /\ chunk.val.id = "Record"
         THEN LET record == Record_read(chunk.val) IN
              IF IsOk(record) THEN [item |-> Some(record), self |-> after]
              ELSE IF strict THEN [item |-> Some(Context(record, "invalid Record")), self |-> after]
              ELSE [item |-> None, self |-> after]
         ELSE IF IsOk(chunk) THEN [item |-> None, self |-> after]
         ELSE IF strict THEN [item |-> Some(Context(chunk, "malformed Record")), self |-> after]
         ELSE [item |-> None, self |-> after]

(***************************************************************************)
(* ctab.rs: the enumerations and the two mute bitfields.                   *)
(***************************************************************************)
\* a & b on bytes.
RECURSIVE BitAnd(_, _)
BitAnd(a, b) ==
    IF a = 0 \/ b = 0 THEN 0
    ELSE (a % 2) * (b % 2) + 2 * BitAnd(a \div 2, b \div 2)

\* 1 << n on a byte-sized mask.
ShiftLeft1(n) == 2 ^ n

\* Mutant: a set bit gives true.
Ctab_read_note_mute_inverted(value) ==
    IF value[1] > 15 /\ strict THEN Err("note mute first nibble is not 0")
    ELSE Ok(("B" :> (BitAnd(value[1], 8) # 0)) @@ ("Bb" :> (BitAnd(value[1], 4) # 0))
            @@ ("A" :> (BitAnd(value[1], 2) # 0)) @@ ("Gs" :> (BitAnd(value[1], 1) # 0))
            @@ ("G" :> (BitAnd(value[2], 128) # 0)) @@ ("Fs" :> (BitAnd(value[2], 64) # 0))
            @@ ("F" :> (BitAnd(value[2], 32) # 0)) @@ ("E" :> (BitAnd(value[2], 16) # 0))
            @@ ("Eb" :> (BitAnd(value[2], 8) # 0)) @@ ("D" :> (BitAnd(value[2], 4) # 0))
            @@ ("Cs" :> (BitAnd(value[2], 2) # 0)) @@ ("C" :> (BitAnd(value[2], 1) # 0)))

\* Ctab::read_note_mute; value[1], value[2] are the source's value[0], value[1].
Ctab_read_note_mute(value) ==
    IF value[1] > 15 /\ strict THEN Err("note mute first nibble is not 0")
    ELSE LET b == BitAnd(value[1], 8) = 0
             bb == BitAnd(value[1], 4) = 0
             a == BitAnd(value[1], 2) = 0
             gs == BitAnd(value[1], 1) = 0
             g == BitAnd(value[2], 128) = 0
             fs == BitAnd(value[2], 64) = 0
             f == BitAnd(value[2], 32) = 0
             e == BitAnd(value[2], 16) = 0
             eb == BitAnd(value[2], 8) = 0
             d == BitAnd(value[2], 4) = 0
             cs == BitAnd(value[2], 2) = 0
             c == BitAnd(value[2], 1) = 0 IN
         Ok(("B" :> b) @@ ("Bb" :> bb) @@ ("A" :> a) @@ ("Gs" :> gs) @@ ("G" :> g)
            @@ ("Fs" :> fs) @@ ("F" :> f) @@ ("E" :> e) @@ ("Eb" :> eb) @@ ("D" :> d)
            @@ ("Cs" :> cs) @@ ("C" :> c))

\* chords_order of Ctab::read_chord_mute.
chords_order == <<
    "SpecialPercussion", "SpecialAutostart", "OnePlusTwoPlus5", "Sus4",
    "OnePlusFive", "OnePlusEight", "SevenAug", "Maj7aug",
    "SevenS9", "SevenB13", "SevenB9", "Seven13",
    "SevenS11", "Seven9", "SevenB5", "SevenSus4",
    "Seven", "Dim7", "Dim", "MinMaj7_9",
    "MinMaj7", "Min7_11", "Min7_9", "Min9",
    "Min7b5", "Min7", "Min6", "Min",
    "Aug", "Maj6_9", "Maj7_9", "Maj9",
    "Maj7s11", "Maj7", "Maj6", "Maj" >>

\* HashMap::insert: the new value replaces the one the key had.
Insert(map, key, val) == (key :> val) @@ map
EmptyMap == [k \in {} |-> FALSE]

\* Mutant: the reserved nibble is not skipped (cursor off by the 4 bits).
RECURSIVE ChordMuteLoop_noSkip(_, _, _)
ChordMuteLoop_noSkip(value, cur, chord_mute) ==
    IF cur >= Len(chords_order) THEN chord_mute
    ELSE LET pos == cur % 8
             cur_byte == cur \div 8
             mask == ShiftLeft1(8 - pos - 1)
             not_muted == BitAnd(value[cur_byte + 1], mask) # 0 IN
         ChordMuteLoop_noSkip(value, cur + 1, Insert(chord_mute, chords_order[cur + 1], not_muted))

\* The for loop of read_chord_mute; cur counts from 0 as in the source and
\* value[cur_byte + 1] is the source's value[cur_byte].
RECURSIVE ChordMuteLoop(_, _, _)
ChordMuteLoop(value, cur, chord_mute) ==
    IF cur >= Len(chords_order) THEN chord_mute
    ELSE LET pos == (cur + 4) % 8
             cur_byte == (cur + 4) \div 8
             mask == ShiftLeft1(8 - pos - 1)
             not_muted == BitAnd(value[cur_byte + 1], mask) # 0 IN
         ChordMuteLoop(value, cur + 1, Insert(chord_mute, chords_order[cur + 1], not_muted))

Ctab_read_chord_mute(value) ==
    IF value[1] > 15 /\ strict THEN Err("first nibble of chord mute field is not 0")
    ELSE Ok(ChordMuteLoop(value, 0, EmptyMap))

Keys == <<"C", "Cs", "D", "Eb", "E", "F", "Fs", "G", "Gs", "A", "Bb", "B">>

\* impl TryFrom<u8> for Key
Key_try_from(value) ==
    IF value \in 0..11 THEN Ok(Keys[value + 1]) ELSE Err("invalid key value")

Chords == <<
    "Maj", "Maj6", "Maj7", "Maj7s11", "Maj9", "Maj7_9", "Maj6_9", "Aug",
    "Min", "Min6", "Min7", "Min7b5", "Min9", "Min7_9", "Min7_11", "MinMaj7",
    "MinMaj7_9", "Dim", "Dim7", "Seven", "SevenSus4", "SevenB5", "Seven9", "SevenS11",
    "Seven13", "SevenB9", "SevenB13", "SevenS9", "Maj7aug", "SevenAug", "OnePlusEight",
    "OnePlusFive", "Sus4", "OnePlusTwoPlus5", "Cancel" >>

\* impl TryFrom<u8> for Chord
Chord_try_from(value) ==
    IF value \in 0..34 THEN Ok(Chords[value + 1]) ELSE Err("unknown chord")

RetriggerRules ==
    <<"Stop", "PitchShift", "PitchShiftToRoot", "Retrigger", "RetriggerToRoot", "NoteGenerator">>

\* impl TryFrom<u8> for RetriggerRule
RetriggerRule_try_from(value) ==
    IF value \in 0..5 THEN Ok(RetriggerRules[value + 1]) ELSE Err("unknown retrigger rule")

\* impl TryFrom<(u8, Version)> for TranspositionType
TranspositionType_try_from(value, version) ==
    IF value = 0 THEN Ok("RootTransposition")
    ELSE IF value = 1 THEN Ok("RootFixed")
    ELSE IF value = 2
         THEN IF version = "Ctab1" /\ strict THEN Err("Guitar transposition mode in SFFv1")
              ELSE Ok("Guitar")
    ELSE IF strict THEN Err("unknown transposition mode")
    ELSE Ok("RootTransposition")

\* impl TryFrom<(u8, Version)> for TranspositionTable: the match arms in
\* source order, the first that applies deciding.
TranspositionTable_try_from(byte, version) ==
    LET value == BitAnd(byte, 127) IN
    IF value = 0 /\ version = "Guitar" THEN Ok("AllPurpose")
    ELSE IF value = 0 THEN Ok("Bypass")
    ELSE IF value = 1 /\ version = "Guitar" THEN Ok("Stroke")
    ELSE IF value = 1 THEN Ok("Melody")
    ELSE IF value = 2 /\ version = "Guitar" THEN Ok("Arpeggio")
    ELSE IF value = 2 THEN Ok("Chord")
    ELSE IF value = 3 /\ version = "Ctab1" THEN Ok("Bass")
    ELSE IF value = 3 THEN Ok("MelodicMinor")
    ELSE IF value = 4 /\ version = "Ctab1" THEN Ok("MelodicMinor")
    ELSE IF value = 4 THEN Ok("MelodicMinor5th")
    ELSE IF value = 5 THEN Ok("HarmonicMinor")
    ELSE IF version = "Ctab1" /\ strict THEN Err("transposition table not valid in SFFv1")
    ELSE IF value = 6 THEN Ok("HarmonicMinor5th")
    ELSE IF value = 7 THEN Ok("NaturalMinor")
    ELSE IF value = 8 THEN Ok("NaturalMinor5th")
    ELSE IF value = 9 THEN Ok("Dorian")
    ELSE IF value = 10 THEN Ok("Dorian5th")
    ELSE IF strict THEN Err("unknown transposition table")
    ELSE Ok("Bypass")

\* u7::from(u8): the low 7 bits.
u7_from(byte) == byte % 128

\* Mutant: the bass flag is the top bit of the rule byte in every version.
Table_try_from_bassAnyVersion(value, version) ==
    IF Len(value) < TABLE_SIZE THEN Err("data field too small")
    ELSE LET ntr == TranspositionType_try_from(value[1], version)
             ntt == TranspositionTable_try_from(value[2], version)
             bass_on == BitAnd(value[2], 128) # 0
             high_key == Key_try_from(value[3])
             retrigger_rule == RetriggerRule_try_from(value[6]) IN
         IF IsErr(ntr) THEN ntr
         ELSE IF IsErr(ntt) THEN ntt
         ELSE IF IsErr(high_key) THEN high_key
         ELSE IF IsErr(retrigger_rule) THEN retrigger_rule
         ELSE Ok([ntr |-> ntr.val, ntt |-> ntt.val, bass_on |-> bass_on,
                  high_key |-> high_key.val,
                  note_range |-> <<u7_from(value[4]), u7_from(value[5])>>,
                  retrigger_rule |-> retrigger_rule.val])

\* impl TryFrom<(&[u8], Version)> for Table; value[i + 1] is the source's
\* value[i].  The ? operators return the first error in field order.
Table_try_from(value, version) ==
    IF Len(value) < TABLE_SIZE THEN Err("data field too small")
    ELSE LET ntr == TranspositionType_try_from(value[1], version)
             ntt == TranspositionTable_try_from(value[2], version)
             bass_on == BitAnd(value[2], 128) # 0 /\ version = "Ctab2"
             high_key == Key_try_from(value[3])
             retrigger_rule == RetriggerRule_try_from(value[6]) IN
         IF IsErr(ntr) THEN ntr
         ELSE IF IsErr(ntt) THEN ntt
         ELSE IF IsErr(high_key) THEN high_key
         ELSE IF IsErr(retrigger_rule) THEN retrigger_rule
         ELSE Ok([ntr |-> ntr.val, ntt |-> ntt.val, bass_on |-> bass_on,
                  high_key |-> high_key.val,
                  note_range |-> <<u7_from(value[4]), u7_from(value[5])>>,
                  retrigger_rule |-> retrigger_rule.val])

(***************************************************************************)
(* ctab.rs: Ctab::read.  A read takes bytes from the front of `value`, the *)
(* cursor over the payload; every step gives its result and the cursor     *)
(* after it.                                                               *)
(***************************************************************************)
Step(result, value) == [result |-> result, value |-> value]

\* u8::read: one byte, an error when none is left.
u8_read(value) ==
    IF value = <<>> THEN Step(Err("failed to read the expected integer"), value)
    ELSE Step(Ok(Head(value)), Tail(value))

\* u4::read and u7::read: one byte holding a value of `bits` bits; excess
\* bits are an error under strict and dropped under lenient.
RestrictedRead(value, bits) ==
    LET byte == u8_read(value) IN
    IF IsErr(byte.result) THEN byte
    ELSE IF strict /\ byte.result.val >= 2 ^ bits
         THEN Step(Err("excess bits in integer"), byte.value)
    ELSE Step(Ok(byte.result.val % (2 ^ bits)), byte.value)

u4_read(value) == RestrictedRead(value, 4)
u7_read(value) == RestrictedRead(value, 7)

\* split_checked(n): the first n bytes, or None (cursor untouched) when
\* fewer are left.
split_checked(value, n) ==
    IF Len(value) < n THEN Step(None, value)
    ELSE Step(Some(SubSeq(value, 1, n)), SubSeq(value, n + 1, Len(value)))

\* str::trim on a name: leading and trailing white space removed.  The
\* chars with the Unicode White_Space property, in UTF-8: U+0009..U+000D,
\* U+0020, U+0085, U+00A0, U+1680, U+2000..U+200A, U+2028, U+2029, U+202F,
\* U+205F, U+3000.
WhiteSpace ==
    {<<b>> : b \in {9, 10, 11, 12, 13, 32}}
        \cup {<<194, 133>>, <<194, 160>>, <<225, 154, 128>>}
        \cup {<<226, 128, b>> : b \in (128..138) \cup {168, 169, 175}}
        \cup {<<226, 129, 159>>, <<227, 128, 128>>}
\* char::is_whitespace, the char given as its UTF-8 bytes.
IsSpace(char) == char \in WhiteSpace
\* The length of the white-space char t starts with (ends with), 0 if none.
SpaceAtStart(t) ==
    LET lens == {n \in 1..3 : n <= Len(t) /\ IsSpace(SubSeq(t, 1, n))} IN
    IF lens = {} THEN 0 ELSE CHOOSE n \in lens : TRUE
SpaceAtEnd(t) ==
    LET lens == {n \in 1..3 : n <= Len(t) /\ IsSpace(SubSeq(t, Len(t) - n + 1, Len(t)))} IN
    IF lens = {} THEN 0 ELSE CHOOSE n \in lens : TRUE
RECURSIVE TrimStart(_)
TrimStart(t) ==
    IF SpaceAtStart(t) = 0 THEN t ELSE TrimStart(SubSeq(t, SpaceAtStart(t) + 1, Len(t)))
RECURSIVE TrimEnd(_)
TrimEnd(t) ==
    IF SpaceAtEnd(t) = 0 THEN t ELSE TrimEnd(SubSeq(t, 1, Len(t) - SpaceAtEnd(t)))
Trim(t) == TrimEnd(TrimStart(t))

\* Mutant: all CTAB1_SPECIAL_SIZE bytes are taken after the sentinel.
Ctab1Special_wholeBlock(value) ==
    LET sentinel == u8_read(value) IN
    IF IsErr(sentinel.result) THEN sentinel
    ELSE IF sentinel.result.val # 0
         THEN LET special == split_checked(sentinel.value, CTAB1_SPECIAL_SIZE) IN
              IF IsNone(special.result) /\ strict
              THEN Step(Err("missing special bytes at the end of CTABv1"), special.value)
              ELSE Step(Ok(special.result), special.value)
    ELSE Step(Ok(None), sentinel.value)

\* The end of a CTAB1 payload: the sentinel byte and, when it is not zero,
\* the special bytes.  Ok carries the record's `special`.
Ctab1Special(value) ==
    LET sentinel == u8_read(value) IN
    IF IsErr(sentinel.result) THEN sentinel
    ELSE IF sentinel.result.val # 0
         THEN LET special == split_checked(sentinel.value, CTAB1_SPECIAL_SIZE - 1) IN
              IF IsNone(special.result) /\ strict
              THEN Step(Err("missing special bytes at the end of CTABv1"), special.value)
              ELSE Step(Ok(special.result), special.value)
    ELSE Step(Ok(None), sentinel.value)

\* The Version::Ctab1 arm: one table over the full note range, then the
\* sentinel and the special bytes.  Ok carries [table, range, special].
Ctab1Suffix(value) ==
    LET data == split_checked(value, TABLE_SIZE) IN
    IF IsNone(data.result)
    THEN Step(Err("cannot construct transposition table"), data.value)
    ELSE LET table == Table_try_from(data.result.val, "Ctab1") IN
         IF IsErr(table) THEN Step(table, data.value)
         ELSE LET special == Ctab1Special(data.value) IN
              IF IsErr(special.result) THEN special
              ELSE Step(Ok([table |-> <<table.val>>, range |-> <<0, 127>>,
                            special |-> special.result.val]), special.value)

\* Mutant: the three tables are pushed in the order high, mid, low.
Ctab2Suffix_highFirst(value) ==
    LET low_note == u7_read(value)
        high_note == u7_read(low_note.value)
        data == split_checked(high_note.value, TABLE_SIZE * 3) IN
    IF IsErr(low_note.result) THEN low_note
    ELSE IF IsErr(high_note.result) THEN high_note
    ELSE IF IsNone(data.result)
         THEN Step(Err("cannot construct transposition table"), data.value)
    ELSE LET bytes == data.result.val
             low == Table_try_from(SubSeq(bytes, 1, TABLE_SIZE), "Ctab2")
             mid == Table_try_from(SubSeq(bytes, TABLE_SIZE + 1, TABLE_SIZE * 2), "Ctab2")
             high == Table_try_from(SubSeq(bytes, TABLE_SIZE * 2 + 1, TABLE_SIZE * 3), "Ctab2")
             special == split_checked(data.value, CTAB2_SPECIAL_SIZE) IN
         IF IsErr(low) THEN Step(low, data.value)
         ELSE IF IsErr(mid) THEN Step(mid, data.value)
         ELSE IF IsErr(high) THEN Step(high, data.value)
         ELSE IF IsNone(special.result) /\ strict
              THEN Step(Err("missing special bytes at the end of CTABv2"), special.value)
         ELSE Step(Ok([table |-> <<high.val, mid.val, low.val>>,
                       range |-> <<low_note.result.val, high_note.result.val>>,
                       special |-> special.result]), special.value)

\* The Version::Ctab2 | Version::Guitar arm: the middle range, three tables
\* (low, mid, high) decoded as Version::Ctab2, then 7 special bytes.
Ctab2Suffix(value) ==
    LET low_note == u7_read(value)
        high_note == u7_read(low_note.value)
        data == split_checked(high_note.value, TABLE_SIZE * 3) IN
    IF IsErr(low_note.result) THEN low_note
    ELSE IF IsErr(high_note.result) THEN high_note
    ELSE IF IsNone(data.result)
         THEN Step(Err("cannot construct transposition table"), data.value)
    ELSE LET bytes == data.result.val
             low == Table_try_from(SubSeq(bytes, 1, TABLE_SIZE), "Ctab2")
             mid == Table_try_from(SubSeq(bytes, TABLE_SIZE + 1, TABLE_SIZE * 2), "Ctab2")
             high == Table_try_from(SubSeq(bytes, TABLE_SIZE * 2 + 1, TABLE_SIZE * 3), "Ctab2")
             special == split_checked(data.value, CTAB2_SPECIAL_SIZE) IN
         IF IsErr(low) THEN Step(low, data.value)
         ELSE IF IsErr(mid) THEN Step(mid, data.value)
         ELSE IF IsErr(high) THEN Step(high, data.value)
         ELSE IF IsNone(special.result) /\ strict
              THEN Step(Err("missing special bytes at the end of CTABv2"), special.value)
         ELSE Step(Ok([table |-> <<low.val, mid.val, high.val>>,
                       range |-> <<low_note.result.val, high_note.result.val>>,
                       special |-> special.result]), special.value)

\* Ctab::read: the decoded record and the cursor left when it returns.
Ctab_read(chunk) ==
    IF chunk.id \notin {"Ctab1", "Ctab2"} THEN Step(Err("not a CTAB type chunk"), chunk.data)
    ELSE
    LET version == chunk.id
        source == u4_read(chunk.data)
        name_bytes == split_checked(source.value, 8)
        name == IF IsUtf8(name_bytes.result.val) THEN Ok(Trim(name_bytes.result.val))
                ELSE IF strict THEN Err("not a valid string for name")
                ELSE Ok(<<>>)
        dest == u4_read(name_bytes.value)
        editable == u8_read(dest.value)
        note0 == u8_read(editable.value)
        note1 == u8_read(note0.value)
        note_mute == Ctab_read_note_mute(<<note0.result.val, note1.result.val>>)
        chord_bytes == split_checked(note1.value, 5)
        chord_mute == Ctab_read_chord_mute(chord_bytes.result.val)
        key_byte == u8_read(chord_bytes.value)
        source_chord == Key_try_from(key_byte.result.val)
        type_byte == u8_read(key_byte.value)
        source_chord_type == Chord_try_from(type_byte.result.val)
        suffix == IF version = "Ctab1" THEN Ctab1Suffix(type_byte.value)
                  ELSE Ctab2Suffix(type_byte.value) IN
    IF IsErr(source.result) THEN source
    ELSE IF IsNone(name_bytes.result)
         THEN Step(Err("name field is not a string"), name_bytes.value)
    ELSE IF IsErr(name) THEN Step(name, name_bytes.value)
    ELSE IF IsErr(dest.result) THEN dest
    ELSE IF IsErr(editable.result) THEN editable
    ELSE IF IsErr(note0.result) THEN note0
    ELSE IF IsErr(note1.result) THEN note1
    ELSE IF IsErr(note_mute) THEN Step(note_mute, note1.value)
    ELSE IF IsNone(chord_bytes.result)
         THEN Step(Err("not enough data for chord mute"), chord_bytes.value)
    ELSE IF IsErr(chord_mute) THEN Step(chord_mute, chord_bytes.value)
    ELSE IF IsErr(key_byte.result) THEN key_byte
    ELSE IF IsErr(source_chord) THEN Step(source_chord, key_byte.value)
    ELSE IF IsErr(type_byte.result) THEN type_byte
    ELSE IF IsErr(source_chord_type) THEN Step(source_chord_type, type_byte.value)
    ELSE IF IsErr(suffix.result) THEN suffix
    ELSE Step(Ok([source |-> source.result.val,
                  name |-> name.val,
                  dest |-> dest.result.val,
                  editable |-> (editable.result.val = 0),
                  note_mute |-> note_mute.val,
                  chord_mute |-> chord_mute.val,
                  source_chord |-> source_chord.val,
                  source_chord_type |-> source_chord_type.val,
                  table |-> suffix.result.val.table,
                  range |-> suffix.result.val.range,
                  special |-> suffix.result.val.special]), suffix.value)

(***************************************************************************)
(* Input files of the section specification.                               *)
(***************************************************************************)
TopIds == {"Casm", "Mdb", "Mh", "Ots", "Header"}
FaultKinds == {"header", "length"}

\* Two payloads per chunk type, so that two chunks of one type can differ.
TopPayloads(id) ==
    CASE id = "Casm" -> {<<>>, <<Frame("Cseg", <<>>)>>}
      [] id = "Mdb" -> {<<>>, <<Frame("Record", [head |-> <<7, 161, 32, 4, 4>>, chunks |-> <<>>])>>}
      [] OTHER -> {<<>>, <<0>>}

TopFrames == UNION {{Frame(id, p) : p \in TopPayloads(id)} : id \in TopIds}

SeqsUpTo(S, n) == UNION {[1..k -> S] : k \in 0..n}

\* Every buffer of at most n readable frames, with or without a faulty tail.
Buffers(frames, n) ==
    LET whole == SeqsUpTo(frames, n) IN
    whole \cup {b \o <<Faulty(k)>> : b \in SeqsUpTo(frames, n - 1), k \in FaultKinds}

Files == Buffers(TopFrames, MaxChunks)

(***************************************************************************)
(* Specification of the top-level section extraction.                      *)
(***************************************************************************)
Init ==
    /\ strict \in BOOLEAN
    /\ file \in Files
    /\ casm = Unparsed
    /\ mdb = Unparsed
    /\ mh = Unparsed
    /\ ots = Unparsed
    /\ csegOut = <<>>
    /\ recordOut = <<>>
    /\ input = NoInput
    /\ output = NotCalled

CallCasmParse ==
    /\ casm = Unparsed
    /\ casm' = Casm_parse(ChunkIter_new(file))
    /\ UNCHANGED <<strict, file, mdb, mh, ots, iterVars, callVars>>

CallMdbParse ==
    /\ mdb = Unparsed
    /\ mdb' = Mdb_parse(ChunkIter_new(file))
    /\ UNCHANGED <<strict, file, casm, mh, ots, iterVars, callVars>>

CallMhParse ==
    /\ mh = Unparsed
    /\ mh' = Mh_parse(ChunkIter_new(file))
    /\ UNCHANGED <<strict, file, casm, mdb, ots, iterVars, callVars>>

CallOtsParse ==
    /\ ots = Unparsed
    /\ ots' = Ots_parse(ChunkIter_new(file))
    /\ UNCHANGED <<strict, file, casm, mdb, mh, iterVars, callVars>>

Next == CallCasmParse \/ CallMdbParse \/ CallMhParse \/ CallOtsParse

Spec == Init /\ [][Next]_vars

(***************************************************************************)
(* Specification of the CsegIter and RecordIter iterators: the state after *)
(* Casm::parse or Mdb::parse has opened the section of a one-section file, *)
(* then repeated calls of next().                                          *)
(***************************************************************************)
NameOf(part) == StyleParts[CHOOSE i \in DOMAIN StyleParts : StyleParts[i].part = part].name

\* Style-part names joined with commas (0x2C).
RECURSIVE Join(_)
Join(tokens) ==
    IF tokens = <<>> THEN <<>>
    ELSE IF Len(tokens) = 1 THEN tokens[1]
    ELSE tokens[1] \o <<44>> \o Join(Tail(tokens))

IntroX == <<73, 110, 116, 114, 111, 32, 88>>      \* "Intro X"
LowerMainB == <<109, 97, 105, 110, 32, 98>>       \* "main b"
Song == <<83, 111, 110, 103>>                     \* "Song"
Tune == <<84, 117, 110, 101>>                     \* "Tune"
Pop == <<80, 111, 112>>                           \* "Pop"
Jazz == <<74, 97, 122, 122>>                      \* "Jazz"

\* CSEG payloads: three that decode and three that do not (an unknown
\* style part, a chunk that does not belong in a CSEG, a truncated chunk).
CsegSamples ==
    { <<>>,
      <<Frame("Sdec", NameOf("MainA")), Frame("Ctab1", <<>>)>>,
      <<Frame("Sdec", Join(<<NameOf("IntroA"), NameOf("MainB")>>))>>,
      <<Frame("Sdec", IntroX)>>,
      <<Frame("Sdec", NameOf("MainA")), Frame("Mh", <<>>)>>,
      <<Frame("Sdec", NameOf("MainA")), Faulty("length")>> }

\* The chunks of a CASM payload: CSEG chunks and a chunk of another type.
CasmFrames == {Frame("Cseg", p) : p \in CsegSamples} \cup {Frame("Mdb", <<>>)}

\* Record payloads: two that decode, one shorter than its 5-byte prefix and
\* one whose sub-chunks end in a truncated chunk.
RecordSamples ==
    { [head |-> <<7, 161, 32, 4, 4>>,
       chunks |-> <<Frame("SongTitleData", Song), Frame("GenreTitleData", Pop)>>],
      [head |-> <<0, 0, 120, 3, 4>>, chunks |-> <<>>],
      [head |-> <<7, 161>>, chunks |-> <<>>],
      [head |-> <<7, 161, 32, 4, 4>>,
       chunks |-> <<Frame("SongTitleData", Song), Faulty("header")>>] }

\* The chunks of an MDB payload: Record chunks and a chunk of another type.
MdbFrames == {Frame("Record", p) : p \in RecordSamples} \cup {Frame("Cseg", <<>>)}

IterFiles ==
    {<<Frame("Casm", p)>> : p \in Buffers(CasmFrames, MaxItems)}
        \cup {<<Frame("Mdb", p)>> : p \in Buffers(MdbFrames, MaxItems)}

InitIter ==
    /\ strict \in BOOLEAN
    /\ file \in IterFiles
    /\ casm = Casm_parse(ChunkIter_new(file))
    /\ mdb = Mdb_parse(ChunkIter_new(file))
    /\ mh = Unparsed
    /\ ots = Unparsed
    /\ csegOut = <<>>
    /\ recordOut = <<>>
    /\ input = NoInput
    /\ output = NotCalled

\* The caller may go on calling next() after the end of the payload.
CallCsegIterNext ==
    /\ IsOk(casm) /\ IsSome(casm.val)
    /\ Len(csegOut) < Len(file[1].data) + MaxCallsAfterEnd
    /\ LET call == CsegIter_next(casm.val.val) IN
       /\ casm' = Ok(Some(call.self))
       /\ csegOut' = Append(csegOut, call.item)
    /\ UNCHANGED <<strict, file, mdb, mh, ots, recordOut, callVars>>

CallRecordIterNext ==
    /\ IsOk(mdb) /\ IsSome(mdb.val)
    /\ Len(recordOut) < Len(file[1].data) + MaxCallsAfterEnd
    /\ LET call == RecordIter_next(mdb.val.val) IN
       /\ mdb' = Ok(Some(call.self))
       /\ recordOut' = Append(recordOut, call.item)
    /\ UNCHANGED <<strict, file, casm, mh, ots, csegOut, callVars>>

NextIter == CallCsegIterNext \/ CallRecordIterNext

SpecIter == InitIter /\ [][NextIter]_vars

(***************************************************************************)
(* Specification of Cseg::read: one CSEG chunk is decoded.                 *)
(***************************************************************************)
\* A well-formed CTAB1 payload: the 20-byte prefix (source channel, name
\* "Bass    ", destination channel, editable, note mute, chord mute, source
\* key, source chord type), one 6-byte table and a zero sentinel.
CtabPrefixSample ==
    <<8>> \o <<66, 97, 115, 115, 32, 32, 32, 32>> \o <<10, 0>> \o <<15, 255>>
        \o <<15, 255, 255, 255, 255>> \o <<0, 0>>
TableSample == <<1, 0, 7, 0, 127, 0>>
Ctab1Sample == CtabPrefixSample \o TableSample \o <<0>>
\* A well-formed CTAB2 payload: the prefix, the middle range, three tables
\* and 7 special bytes.
Ctab2Sample ==
    CtabPrefixSample \o <<40, 80>> \o TableSample \o TableSample \o TableSample
        \o <<0, 0, 0, 0, 0, 0, 0>>

\* The words style-part declarations are built from: three names, an
\* unknown name, a name in the wrong case and the empty word.
Tokens == {NameOf("IntroA"), NameOf("MainB"), NameOf("EndingD"), IntroX, LowerMainB, <<>>}

\* The declarations of exactly k words.
TextsOf(k) == {Join(ts) : ts \in [1..k -> Tokens]}

\* The chunks other than style-part declarations met in a CSEG payload:
\* the three legal ones and one that does not belong there.
OtherSubFrames ==
    {Frame("Ctab1", Ctab1Sample), Frame("Ctab2", Ctab2Sample), Frame("Cntt", <<0, 0>>),
     Frame("Mh", <<>>)}

\* Every CSEG payload of at most n chunks whose declarations hold at most t
\* words in all.
RECURSIVE SubLists(_, _)
SubLists(n, t) ==
    IF n = 0 THEN {<<>>}
    ELSE {<<>>}
         \cup {<<f>> \o rest : f \in OtherSubFrames, rest \in SubLists(n - 1, t)}
         \cup UNION {{<<Frame("Sdec", text)>> \o rest :
                          text \in TextsOf(k), rest \in SubLists(n - 1, t - k)} : k \in 1..t}

ExampleText == Join(<<NameOf("IntroA"), NameOf("MainB"), NameOf("EndingD")>>)

CsegPayloads ==
    SubLists(MaxSubChunks, MaxTokens)
        \cup {b \o <<Faulty(k)>> : b \in SubLists(MaxSubChunks - 1, MaxTokens), k \in FaultKinds}
        \cup {<<Frame("Sdec", ExampleText)>>}

CsegInputs == {[id |-> "Cseg", data |-> p] : p \in CsegPayloads} \cup {[id |-> "Casm", data |-> <<>>]}

InitCseg ==
    /\ strict \in BOOLEAN
    /\ input \in CsegInputs
    /\ output = NotCalled
    /\ file = <<>>
    /\ casm = Unparsed
    /\ mdb = Unparsed
    /\ mh = Unparsed
    /\ ots = Unparsed
    /\ csegOut = <<>>
    /\ recordOut = <<>>

CallCsegRead ==
    /\ output = NotCalled
    /\ output' = Cseg_read(input)
    /\ UNCHANGED <<strict, file, casm, mdb, mh, ots, iterVars, input>>

NextCseg == CallCsegRead

SpecCseg == InitCseg /\ [][NextCseg]_vars

(***************************************************************************)
(* Specifications of the two mute decoders: one field is decoded.          *)
(***************************************************************************)
\* The variables of the section and iterator specifications, not in use.
SectionsIdle ==
    /\ file = <<>>
    /\ casm = Unparsed
    /\ mdb = Unparsed
    /\ mh = Unparsed
    /\ ots = Unparsed
    /\ csegOut = <<>>
    /\ recordOut = <<>>

Bytes == 0..255

InitNoteMute ==
    /\ strict \in BOOLEAN
    /\ input \in Bytes \X Bytes
    /\ output = NotCalled
    /\ SectionsIdle

CallReadNoteMute ==
    /\ output = NotCalled
    /\ output' = Ctab_read_note_mute(input)
    /\ UNCHANGED <<strict, file, casm, mdb, mh, ots, iterVars, input>>

NextNoteMute == CallReadNoteMute

SpecNoteMute == InitNoteMute /\ [][NextNoteMute]_vars

\* Bit positions of the 5-byte chord-mute field, counted from the most
\* significant bit of the first byte: 0..3 are reserved, 4..39 address the
\* 36 chords.
ChordBits == 4..39
ReservedNibbles == {0, 1, 8, 15}

\* The sets of at most n addressed bit positions.
RECURSIVE BitSets(_)
BitSets(n) ==
    IF n = 0 THEN {{}}
    ELSE LET smaller == BitSets(n - 1) IN
         smaller \cup {s \cup {x} : s \in smaller, x \in ChordBits}

\* The byte made of 8 bits, most significant first.
ByteOf(bit(_)) ==
    128 * bit(0) + 64 * bit(1) + 32 * bit(2) + 16 * bit(3)
        + 8 * bit(4) + 4 * bit(5) + 2 * bit(6) + bit(7)

\* The 5 bytes whose set addressed bits are those of `bits`, or all the
\* others, under the given reserved nibble.
FieldOf(bits, others, reserved) ==
    [j \in 1..5 |->
        LET bit(k) == IF ((8 * (j - 1) + k) \in bits) # others THEN 1 ELSE 0 IN
        IF j = 1 THEN 16 * reserved + (ByteOf(bit) % 16) ELSE ByteOf(bit)]

ChordMuteInputs ==
    {FieldOf(bits, others, reserved) :
        bits \in BitSets(MaxBits), others \in BOOLEAN, reserved \in ReservedNibbles}

InitChordMute ==
    /\ strict \in BOOLEAN
    /\ input \in ChordMuteInputs
    /\ output = NotCalled
    /\ SectionsIdle

CallReadChordMute ==
    /\ output = NotCalled
    /\ output' = Ctab_read_chord_mute(input)
    /\ UNCHANGED <<strict, file, casm, mdb, mh, ots, iterVars, input>>

NextChordMute == CallReadChordMute

SpecChordMute == InitChordMute /\ [][NextChordMute]_vars

(***************************************************************************)
(* Specification of Ctab::read: one CTAB1 or CTAB2 chunk is decoded.       *)
(***************************************************************************)
BassName == <<66, 97, 115, 115, 32, 32, 32, 32>>      \* "Bass    "
\* "Bass" after a no-break space (U+00A0), and before an ideographic space
\* (U+3000): white space of more than one byte.
NbspBassName == <<194, 160, 66, 97, 115, 115, 32, 32>>
BassWideName == <<66, 97, 115, 115, 32, 227, 128, 128>>
Prefix(source, name, dest, editable, note_mute, chord_mute, key, chord) ==
    <<source>> \o name \o <<dest, editable>> \o note_mute \o chord_mute \o <<key, chord>>

\* 20-byte prefixes: a well-formed one, then one with excess bits in the
\* source channel and a no-break space before the name, one whose name ends
\* in an ideographic space, a name that is not UTF-8, a reserved note-mute
\* bit, a reserved chord-mute bit, an unknown key and an unknown chord.
PrefixSamples ==
    { Prefix(8, BassName, 10, 0, <<15, 255>>, <<15, 255, 255, 255, 255>>, 0, 0),
      Prefix(24, NbspBassName, 10, 1, <<0, 0>>, <<0, 0, 0, 0, 0>>, 11, 34),
      Prefix(8, BassWideName, 10, 0, <<15, 255>>, <<15, 255, 255, 255, 255>>, 0, 0),
      Prefix(8, <<255, 97, 115, 115, 32, 32, 32, 32>>, 10, 0, <<15, 255>>,
             <<15, 255, 255, 255, 255>>, 0, 0),
      Prefix(8, BassName, 10, 0, <<31, 255>>, <<15, 255, 255, 255, 255>>, 0, 0),
      Prefix(8, BassName, 10, 0, <<15, 255>>, <<143, 255, 255, 255, 255>>, 0, 0),
      Prefix(8, BassName, 10, 0, <<15, 255>>, <<15, 255, 255, 255, 255>>, 12, 0),
      Prefix(8, BassName, 10, 0, <<15, 255>>, <<15, 255, 255, 255, 255>>, 0, 35) }

\* 6-byte tables: type, rule, ceiling key, note range, retrigger rule.
Table1Samples ==
    { <<1, 0, 7, 0, 127, 0>>, <<0, 3, 11, 12, 100, 5>>, <<2, 4, 0, 0, 127, 1>>,
      <<0, 6, 7, 0, 127, 0>>, <<0, 0, 12, 0, 127, 0>>, <<0, 129, 7, 0, 200, 6>> }
Table2Samples == { <<1, 0, 7, 0, 127, 0>>, <<2, 130, 11, 12, 100, 5>>, <<3, 11, 7, 0, 127, 0>> }

\* The bytes that follow the sentinel (CTAB1) or the tables (CTAB2).
TailBytes(n) == [i \in 1..n |-> 160 + i]

Ctab1Payloads ==
    {p \o t \o <<sentinel>> \o TailBytes(n) :
        p \in PrefixSamples, t \in Table1Samples, sentinel \in {0, 1, 255}, n \in 0..MaxTail}

Ctab2Payloads ==
    {p \o range \o low \o mid \o high \o TailBytes(n) :
        p \in PrefixSamples, range \in {<<40, 80>>, <<200, 80>>},
        low \in Table2Samples, mid \in Table2Samples, high \in Table2Samples, n \in 0..MaxTail}

\* Every payload cut short of a well-formed one.
Truncated(payload) == {SubSeq(payload, 1, n) : n \in 0..Len(payload)}

CtabInputs ==
    {[id |-> "Ctab1", data |-> d] : d \in Ctab1Payloads \cup Truncated(Ctab1Sample)}
        \cup {[id |-> "Ctab2", data |-> d] : d \in Ctab2Payloads \cup Truncated(Ctab2Sample)}
        \cup {[id |-> "Cntt", data |-> <<0, 0>>]}

InitCtab ==
    /\ strict \in BOOLEAN
    /\ input \in CtabInputs
    /\ output = NotCalled
    /\ SectionsIdle

CallCtabRead ==
    /\ output = NotCalled
    /\ output' = Ctab_read(input)
    /\ UNCHANGED <<strict, file, casm, mdb, mh, ots, iterVars, input>>

NextCtab == CallCtabRead

SpecCtab == InitCtab /\ [][NextCtab]_vars

(***************************************************************************)
(* Specification of Record::read: one Record chunk is decoded.             *)
(***************************************************************************)
\* The sub-chunks of a Record: titles (two texts, bytes that are not UTF-8,
\* the empty text), genres, keywords and a chunk of another type.
FieldFrames ==
    {Frame("SongTitleData", t) : t \in {Song, Tune, <<255, 111>>, <<>>}}
        \cup {Frame("GenreTitleData", t) : t \in {Pop, Jazz}}
        \cup {Frame("Keyword1", t) : t \in {Pop, <<>>}}
        \cup {Frame("Keyword2", t) : t \in {Jazz}}
        \cup {Frame("Mh", <<>>)}

RecordHead == <<7, 161, 32, 4, 4>>

\* A payload shorter than the 5-byte prefix has nothing after its head.
RecordInputs ==
    {[id |-> "Record", data |-> [head |-> RecordHead, chunks |-> c]] :
        c \in Buffers(FieldFrames, MaxFields)}
        \cup {[id |-> "Record", data |-> [head |-> SubSeq(RecordHead, 1, n), chunks |-> <<>>]] :
                  n \in 0..4}
        \cup {[id |-> "Cseg", data |-> <<>>]}

InitRecord ==
    /\ strict \in BOOLEAN
    /\ input \in RecordInputs
    /\ output = NotCalled
    /\ SectionsIdle

CallRecordRead ==
    /\ output = NotCalled
    /\ output' = Record_read(input)
    /\ UNCHANGED <<strict, file, casm, mdb, mh, ots, iterVars, input>>

NextRecord == CallRecordRead

SpecRecord == InitRecord /\ [][NextRecord]_vars

(***************************************************************************)
(* Specification of Table::try_from: one 6-byte table is decoded in the    *)
(* context of a version.                                                   *)
(***************************************************************************)
Versions == {"Ctab1", "Ctab2", "Guitar"}

\* Codes of the two transposition fields, with and without the bass bit of
\* the rule byte, and samples of the other fields.
TypeCodes == {0, 1, 2, 3, 255}
RuleCodes == (0..12) \cup (128..140) \cup {127, 255}
KeyCodes == {0, 11, 12}
RangeSamples == {<<0, 127>>, <<200, 5>>}
RetriggerCodes == {0, 5, 6}

TableInputs ==
    {[value |-> <<type, rule, key>> \o range \o <<retrigger>>, version |-> version] :
        type \in TypeCodes, rule \in RuleCodes, key \in KeyCodes, range \in RangeSamples,
        retrigger \in RetriggerCodes, version \in Versions}
        \cup {[value |-> SubSeq(TableSample, 1, n), version |-> version] :
                  n \in 0..Len(TableSample), version \in Versions}

InitTable ==
    /\ strict \in BOOLEAN
    /\ input \in TableInputs
    /\ output = NotCalled
    /\ SectionsIdle

CallTableTryFrom ==
    /\ output = NotCalled
    /\ output' = Table_try_from(input.value, input.version)
    /\ UNCHANGED <<strict, file, casm, mdb, mh, ots, iterVars, input>>

NextTable == CallTableTryFrom

SpecTable == InitTable /\ [][NextTable]_vars

(***************************************************************************)
(* Properties of the section extraction.                                   *)
(***************************************************************************)
Sections == {"Casm", "Mdb", "Mh", "Ots"}

ResultOf(id) ==
    CASE id = "Casm" -> casm [] id = "Mdb" -> mdb [] id = "Mh" -> mh [] OTHER -> ots

HeaderMsg(id) ==
    CASE id = "Casm" -> "invalid CASM header" [] id = "Mdb" -> "invalid MDB header"
      [] id = "Mh" -> "invalid MH header" [] OTHER -> "invalid OTS header"

\* The payload a section handle was opened over.
PayloadOf(id, res) ==
    CASE id = "Casm" -> res.val.val.inner [] id = "Mdb" -> res.val.val.inner
      [] id = "Mh" -> res.val.val.bytes [] OTHER -> res.val.val.raw

\* Positions of the readable chunks of type id in a buffer, in file order.
Positions(buf, id) == {i \in 1..Len(buf) : buf[i].fault = "none" /\ buf[i].id = id}
FirstPosition(buf, id) == CHOOSE i \in Positions(buf, id) : \A j \in Positions(buf, id) : i <= j
HasFault(buf) == \E i \in 1..Len(buf) : buf[i].fault # "none"

\* C1: when the file holds two or more chunks of a section's type, the
\* section's parse returns a handle over the payload of the first of them in
\* file order; no later chunk of that type is behind the handle.
C1_FirstMatchWins ==
    \A id \in Sections :
        (ResultOf(id) # Unparsed /\ Cardinality(Positions(file, id)) >= 2)
            => /\ IsOk(ResultOf(id))
               /\ IsSome(ResultOf(id).val)
               /\ PayloadOf(id, ResultOf(id)) = file[FirstPosition(file, id)].data

\* Two CASM chunks with different payloads have been parsed into a handle.
C1_Witness ==
    /\ Cardinality(Positions(file, "Casm")) >= 2
    /\ \E i, j \in Positions(file, "Casm") : i < j /\ file[i].data # file[j].data
    /\ casm # Unparsed
    /\ IsOk(casm)

\* C2: when the tokenizer yields a decode error before any chunk of the
\* section's type, the section's parse returns that error wrapped with the
\* section's context, under both policies, never "absent".
C2_ErrorPropagated ==
    \A id \in Sections :
        (ResultOf(id) # Unparsed /\ HasFault(file) /\ Positions(file, id) = {})
            => /\ IsErr(ResultOf(id))
               /\ Head(ResultOf(id).err) = HeaderMsg(id)

\* C3: when the file is read to its end without a chunk of the section's
\* type, the section's parse returns "absent" (Ok(None)), not an error,
\* whatever other well-formed chunks the file holds.
C3_AbsentIsNone ==
    \A id \in Sections :
        (ResultOf(id) # Unparsed /\ ~HasFault(file) /\ Positions(file, id) = {})
            => ResultOf(id) = Ok(None)

\* A well-formed file of other chunks only has been searched for a CASM
\* section and for an MH section.
C3_Witness ==
    /\ ~HasFault(file)
    /\ Len(file) >= 2
    /\ Positions(file, "Casm") = {}
    /\ Positions(file, "Mh") = {}
    /\ casm = Ok(None)
    /\ mh = Ok(None)

(***************************************************************************)
(* Properties of CsegIter and RecordIter.                                  *)
(***************************************************************************)
\* The section payload the iterators of this file run over.
SectionData == file[1].data

\* The k-th call of next() reads the k-th frame of the payload: every call
\* takes one item from the tokenizer and a faulty frame is the last one.
IsErrItem(item, contexts) ==
    /\ IsSome(item)
    /\ IsErr(item.val)
    /\ Head(item.val.err) \in contexts

\* C4: under the strict policy a chunk of an unexpected type inside the
\* section (not a CSEG in CASM, not a Record in MDB) makes the iterator
\* yield an error with the section's context, never a silent end.
C4_StrictWrongTagIsError ==
    strict =>
        /\ \A k \in 1..Len(csegOut) :
              (k <= Len(SectionData) /\ SectionData[k].fault = "none"
                   /\ SectionData[k].id # "Cseg")
                  => IsErrItem(csegOut[k], {"invalid CSEG", "malformed CSEG"})
        /\ \A k \in 1..Len(recordOut) :
              (k <= Len(SectionData) /\ SectionData[k].fault = "none"
                   /\ SectionData[k].id # "Record")
                  => IsErrItem(recordOut[k], {"invalid Record", "malformed Record"})

\* C5: under the lenient policy, once next() has dropped an item of the
\* payload by returning end-of-sequence, every later call returns
\* end-of-sequence too: nothing located after the dropped item is yielded.
C5_LenientEndIsFinal ==
    ~strict =>
        /\ \A i, j \in 1..Len(csegOut) :
              (i < j /\ i <= Len(SectionData) /\ IsNone(csegOut[i])) => IsNone(csegOut[j])
        /\ \A i, j \in 1..Len(recordOut) :
              (i < j /\ i <= Len(SectionData) /\ IsNone(recordOut[i])) => IsNone(recordOut[j])

(***************************************************************************)
(* Properties of Cseg::read.                                               *)
(***************************************************************************)
Called == output # NotCalled
\* The chunks of the CSEG payload being decoded.
SubChunks == input.data
Sdecs == {i \in 1..Len(SubChunks) : SubChunks[i].fault = "none" /\ SubChunks[i].id = "Sdec"}
Ctabs == {i \in 1..Len(SubChunks) :
              SubChunks[i].fault = "none" /\ SubChunks[i].id \in {"Ctab1", "Ctab2"}}

\* The words of a declaration: what lies between its commas.
Commas(text) == {i \in 1..Len(text) : text[i] = 44}
CommaAt(text, k) ==
    IF k = 0 THEN 0
    ELSE IF k > Cardinality(Commas(text)) THEN Len(text) + 1
    ELSE CHOOSE i \in Commas(text) : Cardinality({j \in Commas(text) : j < i}) = k - 1
Word(text, k) == SubSeq(text, CommaAt(text, k - 1) + 1, CommaAt(text, k) - 1)
WordCount(text) == Cardinality(Commas(text)) + 1
IsName(word) == \E i \in DOMAIN StyleParts : StyleParts[i].name = word
PartNamed(word) == StyleParts[CHOOSE i \in DOMAIN StyleParts : StyleParts[i].name = word].part
PartsOf(text) == [k \in 1..WordCount(text) |-> PartNamed(Word(text, k))]
AllNames(text) == \A k \in 1..WordCount(text) : IsName(Word(text, k))

\* The parts declared by the chunks from position i on, in payload order.
RECURSIVE DeclaredFrom(_)
DeclaredFrom(i) ==
    IF i > Len(SubChunks) THEN <<>>
    ELSE IF i \in Sdecs THEN PartsOf(SubChunks[i].data) \o DeclaredFrom(i + 1)
    ELSE DeclaredFrom(i + 1)

\* C6: the ctab sequence of a decoded Cseg holds one Ctab record for each
\* CTAB1/CTAB2 chunk of the CSEG payload.
C6_OneCtabPerChunk ==
    (Called /\ input.id = "Cseg" /\ IsOk(output))
        => Len(output.val.ctab) = Cardinality(Ctabs)

\* C7: a decoded Cseg lists the style parts its declaration chunks name, in
\* text order, every word matched exactly against the 17 names; a word that
\* is none of the 17 names makes the decode of the CSEG fail.
C7_StylePartsInTextOrder ==
    (Called /\ input.id = "Cseg")
        => /\ IsOk(output) => /\ \A i \in Sdecs : AllNames(SubChunks[i].data)
                              /\ output.val.style_parts = DeclaredFrom(1)
           /\ (\E i \in Sdecs : ~AllNames(SubChunks[i].data)) => IsErr(output)

\* "Intro A,Main B,Ending D" has been decoded to [IntroA, MainB, EndingD].
C7_Witness ==
    /\ Called
    /\ input.id = "Cseg"
    /\ \E i \in Sdecs : SubChunks[i].data = ExampleText
    /\ IsOk(output)
    /\ output.val.style_parts = <<"IntroA", "MainB", "EndingD">>

\* A declaration with a name in the wrong case has made the decode fail.
C7_WitnessUnknown ==
    /\ Called
    /\ input.id = "Cseg"
    /\ \E i \in Sdecs : SubChunks[i].data = LowerMainB
    /\ IsErr(output)

(***************************************************************************)
(* Properties of the mute decoders.                                        *)
(***************************************************************************)
\* Bit k (0 = least significant) of a byte.
Bit(byte, k) == (byte \div (2 ^ k)) % 2

\* The byte (1 or 2) and the bit of each pitch class in the note-mute field.
NoteBit ==
    ("B" :> <<1, 3>>) @@ ("Bb" :> <<1, 2>>) @@ ("A" :> <<1, 1>>) @@ ("Gs" :> <<1, 0>>)
    @@ ("G" :> <<2, 7>>) @@ ("Fs" :> <<2, 6>>) @@ ("F" :> <<2, 5>>) @@ ("E" :> <<2, 4>>)
    @@ ("Eb" :> <<2, 3>>) @@ ("D" :> <<2, 2>>) @@ ("Cs" :> <<2, 1>>) @@ ("C" :> <<2, 0>>)

\* C8: note-mute decoding maps each of the 12 pitch classes to true exactly
\* when its bit is cleared; a set bit among the reserved top 4 bits of the
\* first byte is an error under strict and ignored under lenient.
C8_NoteMuteBits ==
    Called =>
        IF strict /\ input[1] > 15 THEN IsErr(output)
        ELSE /\ IsOk(output)
             /\ DOMAIN output.val = DOMAIN NoteBit
             /\ Cardinality(DOMAIN output.val) = 12
             /\ \A key \in DOMAIN NoteBit :
                    output.val[key] = (Bit(input[NoteBit[key][1]], NoteBit[key][2]) = 0)

\* A field with reserved bits set was decoded under lenient: B (bit set) is
\* false, C (bit cleared) is true.
C8_Witness ==
    /\ Called
    /\ ~strict
    /\ input = <<248, 254>>
    /\ IsOk(output)
    /\ output.val["B"] = FALSE
    /\ output.val["C"] = TRUE

\* A field with a reserved bit set was rejected under strict.
C8_WitnessStrict == Called /\ strict /\ input[1] = 16 /\ IsErr(output)

ChordSet == {chords_order[i] : i \in DOMAIN chords_order}

\* C9: chord-mute decoding gives the chord at index i (0..35) of the chord
\* order the value of bit 7 - ((i + 4) mod 8) of byte (i + 4) div 8; all
\* ones (first byte 0x0F) gives 36 true, all zeros 36 false, and the map has
\* exactly those 36 keys.
C9_ChordMuteBits ==
    Called =>
        /\ IsOk(output) =>
              /\ DOMAIN output.val = ChordSet
              /\ Cardinality(DOMAIN output.val) = 36
              /\ \A i \in 0..35 :
                     output.val[chords_order[i + 1]]
                         = (Bit(input[((i + 4) \div 8) + 1], 7 - ((i + 4) % 8)) = 1)
        /\ input = <<15, 255, 255, 255, 255>> =>
              IsOk(output) /\ \A c \in ChordSet : output.val[c] = TRUE
        /\ input = <<0, 0, 0, 0, 0>> =>
              IsOk(output) /\ \A c \in ChordSet : output.val[c] = FALSE

\* The all-ones pattern has been decoded to 36 chords, all true.
C9_Witness ==
    /\ Called
    /\ input = <<15, 255, 255, 255, 255>>
    /\ IsOk(output)
    /\ Cardinality(DOMAIN output.val) = 36
    /\ \A c \in DOMAIN output.val : output.val[c] = TRUE

(***************************************************************************)
(* Properties of Ctab::read.                                               *)
(***************************************************************************)
\* Offset of the CTAB1 sentinel byte: after the prefix and the one table.
SentinelAt == COMMON_SIZE + TABLE_SIZE + 1
From(data, i) == SubSeq(data, i, Len(data))
MissingSpecial1 == "missing special bytes at the end of CTABv1"
\* The decode did not stop on the prefix, the table or a missing sentinel.
ReachedSpecial ==
    IsOk(output.result) \/ Head(output.result.err) = MissingSpecial1

\* C10: in a CTAB1 payload, after the 20-byte prefix and the 6-byte table,
\* a zero sentinel ends the decode with no special span and nothing more
\* consumed; a non-zero sentinel takes exactly the next 4 bytes as the
\* special span, and when fewer than 4 remain the decode fails under strict
\* and leaves the span absent under lenient.
C10_Ctab1Special ==
    (Called /\ input.id = "Ctab1" /\ Len(input.data) >= SentinelAt /\ ReachedSpecial)
        => LET data == input.data
               left == Len(data) - SentinelAt IN
           IF data[SentinelAt] = 0
           THEN /\ IsOk(output.result)
                /\ output.result.val.special = None
                /\ output.value = From(data, SentinelAt + 1)
           ELSE IF left >= 4
           THEN /\ IsOk(output.result)
                /\ output.result.val.special = Some(SubSeq(data, SentinelAt + 1, SentinelAt + 4))
                /\ output.value = From(data, SentinelAt + 5)
           ELSE IF strict
           THEN IsErr(output.result)
           ELSE /\ IsOk(output.result)
                /\ output.result.val.special = None
                /\ output.value = From(data, SentinelAt + 1)

\* A CTAB1 payload with a non-zero sentinel and 6 bytes after it has been
\* decoded: the first 4 are the special span, 2 are left.
C10_Witness ==
    /\ Called
    /\ input.id = "Ctab1"
    /\ Len(input.data) = SentinelAt + 6
    /\ input.data[SentinelAt] = 255
    /\ IsOk(output.result)
    /\ output.result.val.special = Some(<<161, 162, 163, 164>>)
    /\ output.value = <<165, 166>>

\* A zero sentinel followed by bytes: no special span, the bytes untouched.
C10_WitnessZero ==
    /\ Called
    /\ input.id = "Ctab1"
    /\ Len(input.data) = SentinelAt + 5
    /\ input.data[SentinelAt] = 0
    /\ IsOk(output.result)
    /\ output.result.val.special = None
    /\ Len(output.value) = 5

\* A non-zero sentinel with 3 bytes after it, under lenient: no span.
C10_WitnessShort ==
    /\ Called
    /\ input.id = "Ctab1"
    /\ ~strict
    /\ Len(input.data) = SentinelAt + 3
    /\ input.data[SentinelAt] # 0
    /\ IsOk(output.result)
    /\ output.result.val.special = None

\* Offsets in a CTAB2 payload: the tables start after the prefix and the
\* 2-byte middle range, the special bytes after the three tables.
TablesAt == COMMON_SIZE + 3
Special2At == COMMON_SIZE + 2 + TABLE_SIZE * 3 + 1
TableBytes(data, k) == SubSeq(data, TablesAt + TABLE_SIZE * (k - 1), TablesAt + TABLE_SIZE * k - 1)

\* C11: a successfully decoded CTAB2 record has exactly three tables, the
\* decodings of the three 6-byte blocks after the 2-byte middle range in the
\* order low, mid, high; when 7 bytes follow the tables exactly those 7 are
\* the special span, and under strict the decode fails when fewer follow.
C11_Ctab2ThreeTables ==
    (Called /\ input.id = "Ctab2")
        => LET data == input.data IN
           /\ (strict /\ Len(data) < Special2At + CTAB2_SPECIAL_SIZE - 1) => IsErr(output.result)
           /\ IsOk(output.result) =>
                /\ Len(output.result.val.table) = 3
                /\ \A k \in 1..3 :
                       Ok(output.result.val.table[k]) = Table_try_from(TableBytes(data, k), "Ctab2")
                /\ output.result.val.range = <<data[TablesAt - 2] % 128, data[TablesAt - 1] % 128>>
                /\ IF Len(data) >= Special2At + CTAB2_SPECIAL_SIZE - 1
                   THEN /\ output.result.val.special
                               = Some(SubSeq(data, Special2At, Special2At + CTAB2_SPECIAL_SIZE - 1))
                        /\ output.value = From(data, Special2At + CTAB2_SPECIAL_SIZE)
                   ELSE /\ output.result.val.special = None
                        /\ output.value = From(data, Special2At)

\* A CTAB2 payload with three different tables and 8 bytes after them has
\* been decoded under strict: 7 bytes are the special span, 1 is left.
C11_Witness ==
    /\ Called
    /\ strict
    /\ input.id = "Ctab2"
    /\ Len(input.data) = Special2At + 7
    /\ IsOk(output.result)
    /\ Len(output.result.val.table) = 3
    /\ output.result.val.table[1].ntr = "RootFixed"
    /\ output.result.val.table[3].ntr = "Guitar"
    /\ output.result.val.special = Some(<<161, 162, 163, 164, 165, 166, 167>>)
    /\ output.value = <<168>>

\* Six bytes after the tables under strict: the decode failed.
C11_WitnessShort ==
    /\ Called
    /\ strict
    /\ input.id = "Ctab2"
    /\ Len(input.data) = Special2At + 5
    /\ IsErr(output.result)
    /\ Head(output.result.err) = "missing special bytes at the end of CTABv2"

\* The enum fields of a CTAB payload long enough to hold them: byte offsets
\* of the tables, and whether some field holds a code of no variant.
TableOffsets(chunk) ==
    IF chunk.id = "Ctab1" THEN {COMMON_SIZE} ELSE {COMMON_SIZE + 2 + TABLE_SIZE * k : k \in 0..2}
HoldsTables(chunk) ==
    /\ chunk.id \in {"Ctab1", "Ctab2"}
    /\ \A at \in TableOffsets(chunk) : Len(chunk.data) >= at + TABLE_SIZE
HasUnknownCode(chunk) ==
    \/ chunk.data[COMMON_SIZE - 1] \notin 0..11
    \/ chunk.data[COMMON_SIZE] \notin 0..34
    \/ \E at \in TableOffsets(chunk) :
           \/ chunk.data[at + 1] \notin 0..2
           \/ chunk.data[at + 2] % 128 \notin 0..10
           \/ chunk.data[at + 3] \notin 0..11
           \/ chunk.data[at + 6] \notin 0..5
UnknownCodeErrors ==
    {"invalid key value", "unknown chord", "unknown retrigger rule",
     "unknown transposition mode", "unknown transposition table"}

\* C12: an unrecognized code in an enum field of a CTAB payload (source key,
\* source chord type, ceiling key, retrigger rule, transposition type,
\* transposition rule) fails the decode under strict, and under lenient is
\* replaced by a default so that it never fails the decode.
C12_EnumFallback ==
    (Called /\ HoldsTables(input))
        => /\ (strict /\ HasUnknownCode(input)) => IsErr(output.result)
           /\ ~strict => ~(IsErr(output.result) /\ Head(output.result.err) \in UnknownCodeErrors)

\* The rule names at codes 0, 1, 2.
StandardRules == <<"Bypass", "Melody", "Chord">>
GuitarRules == <<"AllPurpose", "Stroke", "Arpeggio">>

\* C13: in a decoded CTAB2 record, a table whose transposition type code is
\* 0x02 (Guitar) has the rule codes 0, 1, 2 decoded as AllPurpose, Stroke,
\* Arpeggio, and any other table has them decoded as Bypass, Melody, Chord.
C13_GuitarRules ==
    (Called /\ input.id = "Ctab2" /\ IsOk(output.result))
        => \A k \in 1..3 :
               LET bytes == TableBytes(input.data, k)
                   rule == bytes[2] % 128 IN
               rule \in 0..2 =>
                   output.result.val.table[k].ntt
                       = IF bytes[1] = 2 THEN GuitarRules[rule + 1] ELSE StandardRules[rule + 1]

(***************************************************************************)
(* Properties of Record::read.                                             *)
(***************************************************************************)
\* The positions of the sub-chunks of one type in the Record's payload, and
\* the data of the first of them.
FieldPositions(id) ==
    {i \in DOMAIN input.data.chunks : input.data.chunks[i].id = id}
FirstField(id) ==
    input.data.chunks[CHOOSE i \in FieldPositions(id) : \A j \in FieldPositions(id) : i <= j].data

\* C14: when a Record holds several sub-chunks of one string type, the
\* first in arrival order determines the field (title, genre, keyword1,
\* keyword2) and later ones of that type do not change it.
C14_FirstFieldWins ==
    (Called /\ input.id = "Record" /\ IsOk(output))
        => /\ FieldPositions("SongTitleData") # {}
                => output.val.title = StringOrDefault(FirstField("SongTitleData"))
           /\ FieldPositions("GenreTitleData") # {}
                => output.val.genre = StringOrDefault(FirstField("GenreTitleData"))
           /\ FieldPositions("Keyword1") # {}
                => output.val.keyword1 = KeywordOf(FirstField("Keyword1"))
           /\ FieldPositions("Keyword2") # {}
                => output.val.keyword2 = KeywordOf(FirstField("Keyword2"))

(***************************************************************************)
(* Properties of the iterators over whole payloads.                        *)
(***************************************************************************)
\* A CSEG payload with a structural violation: a chunk that does not belong
\* in a CSEG, a declaration with a word that is no style-part name, or a
\* chunk the tokenizer cannot read.
Violates(payload) ==
    \E k \in DOMAIN payload :
        \/ payload[k].fault # "none"
        \/ payload[k].id \notin {"Sdec", "Ctab1", "Ctab2", "Cntt"}
        \/ payload[k].id = "Sdec" /\ ~AllNames(payload[k].data)

\* C15: under either policy CsegIter never yields a decoded Cseg for a
\* CSEG chunk whose payload has a structural violation: Cseg::read fails,
\* so the call yields the error in context under strict and end-of-sequence
\* under lenient, never the style parts collected before the violation.
C15_NoPartialCseg ==
    \A k \in 1..Len(csegOut) :
        (k <= Len(SectionData) /\ SectionData[k].fault = "none"
             /\ SectionData[k].id = "Cseg" /\ Violates(SectionData[k].data))
            => IF strict THEN IsErrItem(csegOut[k], {"invalid CSEG"})
               ELSE IsNone(csegOut[k])

\* Under strict, a CSEG whose declaration is followed by a chunk that does
\* not belong there has been read: the call yielded an error.
C15_Witness ==
    /\ strict
    /\ Len(csegOut) >= 1
    /\ Len(SectionData) >= 1
    /\ SectionData[1] = Frame("Cseg", <<Frame("Sdec", NameOf("MainA")), Frame("Mh", <<>>)>>)
    /\ IsErrItem(csegOut[1], {"invalid CSEG"})

\* Under lenient, a CSEG with an unknown style-part name has been read after
\* a well-formed one: a Cseg, then end-of-sequence.
C15_WitnessLenient ==
    /\ ~strict
    /\ Len(csegOut) >= 2
    /\ Len(SectionData) >= 2
    /\ SectionData[2] = Frame("Cseg", <<Frame("Sdec", IntroX)>>)
    /\ IsSome(csegOut[1]) /\ IsOk(csegOut[1].val)
    /\ IsNone(csegOut[2])

(***************************************************************************)
(* Properties of Table::try_from.                                          *)
(***************************************************************************)
LegacyRules == {"Bypass", "Melody", "Chord", "Bass", "MelodicMinor", "HarmonicMinor"}

\* C16: under strict a table decoded in the Ctab1 context never has the
\* transposition type Guitar and its rule is one of Bypass, Melody, Chord,
\* Bass, MelodicMinor, HarmonicMinor, and a table decoded in the Ctab2
\* context never has the rule Bass; under both policies the bass flag of a
\* table decoded in the Ctab1 context is false.
C16_NoCrossGenerationCodes ==
    (Called /\ IsOk(output))
        => /\ (strict /\ input.version = "Ctab1")
                => /\ output.val.ntr # "Guitar"
                   /\ output.val.ntt \in LegacyRules
           /\ (strict /\ input.version = "Ctab2") => output.val.ntt # "Bass"
           /\ input.version = "Ctab1" => output.val.bass_on = FALSE

\* A table with rule byte 0x83 (code 3 with the top bit) has been decoded in
\* the Ctab1 context under strict: rule Bass, bass flag false.
C16_Witness ==
    /\ Called
    /\ strict
    /\ input.version = "Ctab1"
    /\ Len(input.value) = TABLE_SIZE
    /\ input.value[2] = 131
    /\ IsOk(output)
    /\ output.val.ntt = "Bass"
    /\ output.val.bass_on = FALSE

\* The same rule byte in the Ctab2 context: MelodicMinor with the bass flag.
C16_WitnessCtab2 ==
    /\ Called
    /\ strict
    /\ input.version = "Ctab2"
    /\ Len(input.value) = TABLE_SIZE
    /\ input.value[2] = 131
    /\ IsOk(output)
    /\ output.val.ntt = "MelodicMinor"
    /\ output.val.bass_on = TRUE

\* Type code 2 in the Ctab1 context under strict: rejected.
C16_WitnessGuitar ==
    /\ Called
    /\ strict
    /\ input.version = "Ctab1"
    /\ Len(input.value) = TABLE_SIZE
    /\ input.value[1] = 2
    /\ IsErr(output)
    /\ Head(output.err) = "Guitar transposition mode in SFFv1"

\* What is left of the payload after n calls of next().
LeftAfter(n) ==
    IF n >= Len(SectionData) THEN <<>> ELSE SubSeq(SectionData, n + 1, Len(SectionData))
\* The calls that yielded an item.
Yielded(out) == {k \in 1..Len(out) : IsSome(out[k])}

\* C17: every call of next() on CsegIter (RecordIter) takes exactly one item
\* from the tokenizer, so a call after the last chunk of the payload returns
\* end-of-sequence and a drain is over after at most one call more than the
\* payload has chunks; the items yielded are no more than the chunks, and
\* the k-th call yields the decoding of the k-th chunk: file order.
C17_DrainIsBounded ==
    /\ (IsOk(casm) /\ IsSome(casm.val)) =>
          /\ casm.val.val.inner = LeftAfter(Len(csegOut))
          /\ \A k \in 1..Len(csegOut) : k > Len(SectionData) => IsNone(csegOut[k])
          /\ Cardinality(Yielded(csegOut)) <= Len(SectionData)
          /\ \A k \in Yielded(csegOut) :
                IsOk(csegOut[k].val) =>
                    /\ SectionData[k].id = "Cseg"
                    /\ csegOut[k].val = Cseg_read(Chunk(SectionData[k]))
    /\ (IsOk(mdb) /\ IsSome(mdb.val)) =>
          /\ mdb.val.val.inner = LeftAfter(Len(recordOut))
          /\ \A k \in 1..Len(recordOut) : k > Len(SectionData) => IsNone(recordOut[k])
          /\ Cardinality(Yielded(recordOut)) <= Len(SectionData)
          /\ \A k \in Yielded(recordOut) :
                IsOk(recordOut[k].val) =>
                    /\ SectionData[k].id = "Record"
                    /\ recordOut[k].val = Record_read(Chunk(SectionData[k]))

\* A payload of two CSEG chunks has been drained: two different Csegs in
\* file order, then end-of-sequence.
C17_Witness ==
    /\ Len(SectionData) = 2
    /\ Len(csegOut) = 3
    /\ IsSome(csegOut[1]) /\ IsOk(csegOut[1].val)
    /\ IsSome(csegOut[2]) /\ IsOk(csegOut[2].val)
    /\ csegOut[1].val.val.style_parts = <<"MainA">>
    /\ csegOut[2].val.val.style_parts = <<"IntroA", "MainB">>
    /\ IsNone(csegOut[3])

\* The same for a payload of two Record chunks.
C17_WitnessRecord ==
    /\ Len(SectionData) = 2
    /\ Len(recordOut) = 3
    /\ IsSome(recordOut[1]) /\ IsOk(recordOut[1].val)
    /\ IsSome(recordOut[2]) /\ IsOk(recordOut[2].val)
    /\ recordOut[1].val.val.title = Song
    /\ recordOut[2].val.val.title = <<>>
    /\ IsNone(recordOut[3])

====
